---- MODULE Spec2Model ----
(***************************************************************************)
(* A model of normalization.py: the near-duplicate pruning pass over the   *)
(* sentences table (normalize_text and clean_database).                    *)
(*                                                                         *)
(* A text is a sequence of one-character strings; the SQL NULL (Python's   *)
(* None) is the value None below.  Python positions are 0-based: the loop  *)
(* variables i, j, k keep their Python values and data[i] of the code is   *)
(* data[i + 1] here.  The similarity threshold is kept in hundredths       *)
(* (0.90 is 90), and a ratio is kept as the pair numerator / denominator   *)
(* so that the comparison with the threshold is exact.  The lines of the   *)
(* source that start with // are disabled print statements; they change no *)
(* state and are read as comments.                                         *)
(***************************************************************************)
EXTENDS Integers, Sequences, FiniteSets, TLC

VARIABLES
    store,                \* the sentences table as committed: rows in the order a SELECT returns them
    pending,              \* the table as the open connection sees it (uncommitted DELETEs applied)
    WINDOW_SIZE,          \* configuration: neighbours checked per anchor
    SIMILARITY_THRESHOLD, \* configuration: threshold in hundredths
    pc,                   \* position in clean_database
    rows,                 \* result of cursor.fetchall()
    data,                 \* list of {'id', 'text', 'clean'}
    ids_to_delete,        \* the deletion set
    i, j,                 \* loop variables of the window scan
    user_input,           \* reply to the confirmation prompt
    id_list, k,           \* list(ids_to_delete) and the batch loop variable
    statements,           \* the parameter lists of the DELETE statements executed so far
    raised,               \* the exception that ended the pass, "" when none
    last,                 \* the latest judgement of a pair (anchor, neighbour)
    njudged,              \* number of pairs judged in this pass
    run,                  \* number of the pass (the script may be run again)
    prev                  \* what the previous pass read and computed

vars == <<store, pending, WINDOW_SIZE, SIMILARITY_THRESHOLD, pc, rows, data,
          ids_to_delete, i, j, user_input, id_list, k, statements, raised,
          last, njudged, run, prev>>

-----------------------------------------------------------------------------
(* Characters and texts *)

None == <<"None">>

Digits == <<"0", "1", "2", "3", "4", "5", "6", "7", "8", "9">>

LowerCase == <<"a", "b", "c", "d", "e", "f", "g", "h", "i", "j", "k", "l", "m",
               "n", "o", "p", "q", "r", "s", "t", "u", "v", "w", "x", "y", "z">>

UpperCase == <<"A", "B", "C", "D", "E", "F", "G", "H", "I", "J", "K", "L", "M",
               "N", "O", "P", "Q", "R", "S", "T", "U", "V", "W", "X", "Y", "Z">>

\* The characters of the class [a-z0-9], in code point order.
KeyChars == Digits \o LowerCase

Range(s) == {s[p] : p \in DOMAIN s}

\* str.lower() on one character.
LowerChar(c) ==
    IF c \in Range(UpperCase)
    THEN LowerCase[CHOOSE p \in DOMAIN UpperCase : UpperCase[p] = c]
    ELSE c

\* text.lower()
Lower(text) == [p \in DOMAIN text |-> LowerChar(text[p])]

\* A character class that lets the space through.
StripNonAlnum_KeepSpaces(s) == SelectSeq(s, LAMBDA c : c \in Range(KeyChars) \cup {" "})

\* re.sub(r'[^a-z0-9]', '', s)
StripNonAlnum(s) == SelectSeq(s, LAMBDA c : c \in Range(KeyChars))

\* normalize_text(text): "" for None and for "", else the lowercased
\* text without the characters outside [a-z0-9].
normalize_text(text) ==
    IF text = None \/ text = <<>>
    THEN <<>>
    ELSE StripNonAlnum(Lower(text))

\* Code point order of the characters a key can hold.
Ord(c) == CHOOSE p \in DOMAIN KeyChars : KeyChars[p] = c

\* a < b for Python strings, from position p on (the first p - 1 characters agree).
RECURSIVE StrLessFrom(_, _, _)
StrLessFrom(a, b, p) ==
    IF p > Len(a) THEN p <= Len(b)
    ELSE IF p > Len(b) THEN FALSE
    ELSE IF a[p] = b[p] THEN StrLessFrom(a, b, p + 1)
    ELSE Ord(a[p]) < Ord(b[p])

StrLess(a, b) == StrLessFrom(a, b, 1)

-----------------------------------------------------------------------------
(* Levenshtein.ratio *)

Max(x, y) == IF x >= y THEN x ELSE y

\* One row of the longest-common-subsequence table, filled from the left:
\* acc holds the q entries found so far, and the finished row's entry q + 1 is
\* the length of the longest common subsequence of b[1..q] and the prefix of a
\* that ends with the character c.  prevRow is the row of the prefix before c.
RECURSIVE LcsRowFrom(_, _, _, _, _)
LcsRowFrom(prevRow, c, b, q, acc) ==
    IF q > Len(b) \/ Len(acc) # q THEN acc
    ELSE LET v == IF b[q] = c
                  THEN prevRow[q] + 1
                  ELSE Max(prevRow[q + 1], acc[q])
         IN  LcsRowFrom(prevRow, c, b, q + 1, Append(acc, v))

\* The rows of the table, one per character of a; the last one is returned.
RECURSIVE LcsRows(_, _, _, _)
LcsRows(a, b, p, prevRow) ==
    IF p > Len(a) \/ Len(prevRow) # Len(b) + 1 THEN prevRow
    ELSE LcsRows(a, b, p + 1, LcsRowFrom(prevRow, a[p], b, 1, <<0>>))

LcsLength(a, b) ==
    LcsRows(a, b, 1, <<>> \o [q \in 1..(Len(b) + 1) |-> 0])[Len(b) + 1]

Min3(x, y, z) ==
    IF x <= y /\ x <= z THEN x ELSE IF y <= z THEN y ELSE z

\* One row of the edit distance table with insertions, deletions and
\* substitutions at cost 1 each, filled from the left as LcsRowFrom is.
RECURSIVE EditRowFrom(_, _, _, _, _)
EditRowFrom(prevRow, c, b, q, acc) ==
    IF q > Len(b) \/ Len(acc) # q THEN acc
    ELSE LET v == Min3(prevRow[q + 1] + 1,
                       acc[q] + 1,
                       prevRow[q] + (IF b[q] = c THEN 0 ELSE 1))
         IN  EditRowFrom(prevRow, c, b, q + 1, Append(acc, v))

RECURSIVE EditRows(_, _, _, _)
EditRows(a, b, p, prevRow) ==
    IF p > Len(a) \/ Len(prevRow) # Len(b) + 1 THEN prevRow
    ELSE EditRows(a, b, p + 1, EditRowFrom(prevRow, a[p], b, 1, <<p>>))

\* The edit distance with unit substitutions (the Levenshtein distance).
EditDistance(a, b) ==
    EditRows(a, b, 1, <<>> \o [q \in 1..(Len(b) + 1) |-> q - 1])[Len(b) + 1]

\* The distance with a substitution at cost 1.
IndelDistance_UnitSubstitution(a, b) == EditDistance(a, b)

\* The edit distance Levenshtein.ratio is built on: insertions and deletions
\* cost 1 and a substitution costs 2.
IndelDistance(a, b) == Len(a) + Len(b) - 2 * LcsLength(a, b)

\* 1 - editDistance / max(len(a), len(b), 1), as num / den.
ratio_Normalized(a, b) ==
    LET m == Max(Max(Len(a), Len(b)), 1)
    IN  [num |-> m - EditDistance(a, b), den |-> m]

\* Levenshtein.ratio(a, b) = (lensum - distance) / lensum, and 1.0 for two
\* empty strings; num / den is the ratio.
ratio(a, b) ==
    LET lensum == Len(a) + Len(b)
    IN  IF lensum = 0
        THEN [num |-> 1, den |-> 1]
        ELSE [num |-> lensum - IndelDistance(a, b), den |-> lensum]

\* The comparison with > for >=.
RatioAtLeast_Strict(r, t) == r.num * 100 > t * r.den

\* ratio >= SIMILARITY_THRESHOLD, the threshold t in hundredths.
RatioAtLeast(r, t) == r.num * 100 >= t * r.den

-----------------------------------------------------------------------------
(* The inputs: tables and configurations *)

MaxRows == 3
MaxRuns == 2
MaxBatches == 2
MaxLen == 3

\* WINDOW_SIZE = 10 and SIMILARITY_THRESHOLD = 0.90 as the source sets them.
DefaultWindow == 10
DefaultThreshold == 90

DefaultConfig == [w |-> DefaultWindow, t |-> DefaultThreshold]

\* The configurations a pass is started with: the source's, other values in
\* range, and values outside the documented ranges.
Configs ==
    { DefaultConfig,
      [w |-> 1, t |-> 50], [w |-> 2, t |-> 50], [w |-> 2, t |-> 60],
      [w |-> 0, t |-> 90], [w |-> 2, t |-> 150], [w |-> 2, t |-> -10] }

TextPool ==
    { None,
      <<"!">>,
      <<"a", "b">>,
      <<"a", " ", "b">>,
      <<"a", "c">>,
      <<"b">> }

\* The ids of n rows in the order the table returns them.  The table has an
\* index on the text column, so a SELECT of (id, text) walks that index and
\* the ids come back in any order; ascending and descending are taken here.
IdOrders(n) == { [p \in 1..n |-> p], [p \in 1..n |-> n + 1 - p] }

SmallTables ==
    UNION { { [p \in 1..n |-> [id |-> ids[p], text |-> texts[p]]] :
                ids \in IdOrders(n), texts \in [1..n -> TextPool] } :
            n \in 0..MaxRows }

NoPainNoGain1 ==
    <<"N", "o", " ", "p", "a", "i", "n", ",", " ", "n", "o", " ", "g", "a", "i", "n", "!">>

NoPainNoGain2 ==
    <<"n", "o", " ", "p", "a", "i", "n", " ", "n", "o", " ", "g", "a", "i", "n">>

ILoveDogs == <<"I", " ", "l", "o", "v", "e", " ", "d", "o", "g", "s">>

ILoveDog == <<"I", " ", "l", "o", "v", "e", " ", "d", "o", "g">>

Unrelated ==
    <<"c", "o", "m", "p", "l", "e", "t", "e", "l", "y", " ",
      "u", "n", "r", "e", "l", "a", "t", "e", "d", " ", "t", "e", "x", "t">>

PainTable ==
    << [id |-> 1, text |-> NoPainNoGain1], [id |-> 2, text |-> NoPainNoGain2] >>

PainTableReversed ==
    << [id |-> 1, text |-> NoPainNoGain2], [id |-> 2, text |-> NoPainNoGain1] >>

DogTable ==
    << [id |-> 1, text |-> ILoveDogs], [id |-> 2, text |-> ILoveDog],
       [id |-> 3, text |-> Unrelated] >>

\* Three sentences whose keys have ten characters: the first and the second,
\* and the second and the third, differ in one character (ratio 18 / 20), the
\* first and the third in two (ratio 16 / 20).
MyBooksAre1 == <<"m", "y", " ", "b", "o", "o", "k", "s", " ", "a", "r", "e">>

MyBooksAri1 == <<"m", "y", " ", "b", "o", "o", "k", "s", " ", "a", "r", "i">>

MyBooksAxi1 == <<"m", "y", " ", "b", "o", "o", "k", "s", " ", "a", "x", "i">>

BooksTable ==
    << [id |-> 1, text |-> MyBooksAre1], [id |-> 2, text |-> MyBooksAri1],
       [id |-> 3, text |-> MyBooksAxi1] >>

\* n copies of one sentence, ids 1..n.
UniformTable(n) == <<>> \o [p \in 1..n |-> [id |-> p, text |-> <<"a", "b">>]]

ScenarioTables ==
    { PainTable, PainTableReversed, DogTable, BooksTable,
      UniformTable(12), UniformTable(13) }

Replies == { "YES", "yes", "" }

NotAsked == "<not asked>"

NoJudgement ==
    [kind |-> "none", anchor |-> 0, neighbor |-> 0, before |-> {}, added |-> {}]

NoPrev == [rows |-> <<>>, del |-> {}, scanned |-> FALSE]

-----------------------------------------------------------------------------
(* The operations of clean_database *)

\* A function over 1..n as the list it denotes.
AsList(f) == <<>> \o f

Reverse(s) == [p \in 1..Len(s) |-> s[Len(s) + 1 - p]]

\* cursor.execute("SELECT id, english_text FROM sentences"); cursor.fetchall()
\* The rows come back in the table's order, the same on every pass.
FetchAll_OrderVaries(s) == IF run = 1 THEN s ELSE AsList(Reverse(s))

FetchAll(s) == s

\* Step 1: one dict per row.
Candidates(rs) ==
    AsList([p \in 1..Len(rs) |->
        [id |-> rs[p].id, text |-> rs[p].text, clean |-> normalize_text(rs[p].text)]])

\* data.sort(key=lambda x: x['clean']): ascending by key, and stable, so rows
\* with equal keys keep the order they were fetched in.  rank[p] is the place
\* row p is moved to.
SortByClean(d) ==
    LET n == Len(d)
        rank == AsList([p \in 1..n |->
                    1 + Cardinality({ q \in 1..n :
                            \/ StrLess(d[q].clean, d[p].clean)
                            \/ d[q].clean = d[p].clean /\ q < p })])
        at == AsList([r \in 1..n |-> CHOOSE p \in 1..n : rank[p] = r])
    IN  AsList([r \in 1..n |-> d[at[r]]])

\* list(ids_to_delete): a set of small integers is iterated in ascending order.
ListOf(S) ==
    IF S = {} THEN <<>>
    ELSE LET lo == CHOOSE x \in S : \A y \in S : x <= y
             hi == CHOOSE x \in S : \A y \in S : y <= x
         IN  SelectSeq(AsList([p \in 1..(hi - lo + 1) |-> lo + p - 1]),
                       LAMBDA x : x \in S)

batch_size == 900

Min(x, y) == IF x <= y THEN x ELSE y

\* A slice that runs one element into the next batch.
Batch_OneMore(l, kk) == SubSeq(l, kk + 1, Min(kk + batch_size + 1, Len(l)))

\* id_list[k:k+batch_size]
Batch(l, kk) == SubSeq(l, kk + 1, Min(kk + batch_size, Len(l)))

\* DELETE FROM sentences WHERE id IN (batch)
DeleteIn(table, batch) == SelectSeq(table, LAMBDA r : r.id \notin Range(batch))

current_row == data[i + 1]

next_row == data[i + j + 1]

\* row['id'] in ids_to_delete
Marked_Never(row) == FALSE

Marked(row) == row.id \in ids_to_delete

\* The exact branch keeps the anchor when its text is at least as long.
KeepsAnchor_Strict(cur, nxt) == Len(cur.text) > Len(nxt.text)

KeepsAnchor_WhenShorter(cur, nxt) == Len(cur.text) <= Len(nxt.text)

KeepsAnchor(cur, nxt) == Len(cur.text) >= Len(nxt.text)

\* The id the fuzzy branch marks: the neighbour's.
FuzzyLoser_Anchor(cur, nxt) == cur.id

FuzzyLoser(cur, nxt) == nxt.id

\* A fuzzy branch that never matches.
IsFuzzyMatch_Never(cur, nxt) == FALSE

\* The fuzzy branch's test.
IsFuzzyMatch(cur, nxt) ==
    RatioAtLeast(ratio(cur.clean, nxt.clean), SIMILARITY_THRESHOLD)

Init ==
    /\ \E c \in Configs, t \in SmallTables \cup ScenarioTables :
          /\ t \in ScenarioTables => c = DefaultConfig
          /\ store = t
          /\ WINDOW_SIZE = c.w
          /\ SIMILARITY_THRESHOLD = c.t
    /\ pending = store
    /\ pc = "start"
    /\ rows = <<>>
    /\ data = <<>>
    /\ ids_to_delete = {}
    /\ i = 0
    /\ j = 0
    /\ user_input = NotAsked
    /\ id_list = <<>>
    /\ k = 0
    /\ statements = <<>>
    /\ raised = ""
    /\ last = NoJudgement
    /\ njudged = 0
    /\ run = 1
    /\ prev = NoPrev

\* Lines 32-37: connect and read the whole table.
Fetch ==
    /\ pc = "start"
    /\ rows' = FetchAll(store)
    /\ pending' = store
    /\ pc' = "preprocess"
    /\ UNCHANGED <<store, WINDOW_SIZE, SIMILARITY_THRESHOLD, data, ids_to_delete,
                   i, j, user_input, id_list, k, statements, raised, last,
                   njudged, run, prev>>

\* Lines 43-49.
Preprocess ==
    /\ pc = "preprocess"
    /\ data' = Candidates(rows)
    /\ pc' = "sort"
    /\ UNCHANGED <<store, pending, WINDOW_SIZE, SIMILARITY_THRESHOLD, rows,
                   ids_to_delete, i, j, user_input, id_list, k, statements,
                   raised, last, njudged, run, prev>>

\* Lines 54-56, and the entry of the loop of line 62.
Sort ==
    /\ pc = "sort"
    /\ data' = SortByClean(data)
    /\ ids_to_delete' = {}
    /\ i' = 0
    /\ pc' = "scan"
    /\ UNCHANGED <<store, pending, WINDOW_SIZE, SIMILARITY_THRESHOLD, rows, j,
                   user_input, id_list, k, statements, raised, last, njudged,
                   run, prev>>

\* Lines 62-67: a row already marked is not used as an anchor.
AnchorSkip ==
    /\ pc = "scan"
    /\ i < Len(data)
    /\ Marked(current_row)
    /\ i' = i + 1
    /\ UNCHANGED <<store, pending, WINDOW_SIZE, SIMILARITY_THRESHOLD, pc, rows,
                   data, ids_to_delete, j, user_input, id_list, k, statements,
                   raised, last, njudged, run, prev>>

\* Lines 62-70: a live row becomes the anchor and its window is entered.
AnchorStart ==
    /\ pc = "scan"
    /\ i < Len(data)
    /\ ~Marked(current_row)
    /\ j' = 1
    /\ pc' = "window"
    /\ UNCHANGED <<store, pending, WINDOW_SIZE, SIMILARITY_THRESHOLD, rows, data,
                   ids_to_delete, i, user_input, id_list, k, statements, raised,
                   last, njudged, run, prev>>

\* Lines 70-72: the window is exhausted or runs past the end of data.
WindowEnd ==
    /\ pc = "window"
    /\ j > WINDOW_SIZE \/ i + j >= Len(data)
    /\ i' = i + 1
    /\ pc' = "scan"
    /\ UNCHANGED <<store, pending, WINDOW_SIZE, SIMILARITY_THRESHOLD, rows, data,
                   ids_to_delete, j, user_input, id_list, k, statements, raised,
                   last, njudged, run, prev>>

\* for j in range(1, WINDOW_SIZE + 1) with an upper end one too far.
InWindow_OneMore ==
    /\ pc = "window"
    /\ j <= WINDOW_SIZE + 1
    /\ i + j < Len(data)

\* Lines 70-72: j is in range(1, WINDOW_SIZE + 1) and i + j is inside data.
InWindow ==
    /\ pc = "window"
    /\ j <= WINDOW_SIZE
    /\ i + j < Len(data)

\* Lines 74-78: a neighbour already marked is passed over.
NeighborSkip ==
    /\ InWindow
    /\ Marked(next_row)
    /\ j' = j + 1
    /\ UNCHANGED <<store, pending, WINDOW_SIZE, SIMILARITY_THRESHOLD, pc, rows,
                   data, ids_to_delete, i, user_input, id_list, k, statements,
                   raised, last, njudged, run, prev>>

Judged(kind, added) ==
    [kind |-> kind, anchor |-> i, neighbor |-> i + j,
     before |-> ids_to_delete, added |-> added]

\* Lines 82-89: equal keys.  len() of a None text raises TypeError.
ExactMatch ==
    /\ InWindow
    /\ ~Marked(next_row)
    /\ current_row.clean = next_row.clean
    /\ IF current_row.text = None \/ next_row.text = None
       THEN /\ raised' = "TypeError"
            /\ pc' = "raised"
            /\ last' = Judged("error", {})
            /\ UNCHANGED <<ids_to_delete, i, j, njudged>>
       ELSE /\ njudged' = njudged + 1
            /\ raised' = raised
            /\ IF KeepsAnchor(current_row, next_row)
               THEN /\ ids_to_delete' = ids_to_delete \cup {next_row.id}
                    /\ last' = Judged("exact", {next_row.id})
                    /\ j' = j + 1
                    /\ UNCHANGED <<pc, i>>
               ELSE /\ ids_to_delete' = ids_to_delete \cup {current_row.id}
                    /\ last' = Judged("exact", {current_row.id})
                    /\ i' = i + 1
                    /\ pc' = "scan"
                    /\ UNCHANGED j
    /\ UNCHANGED <<store, pending, WINDOW_SIZE, SIMILARITY_THRESHOLD, rows, data,
                   user_input, id_list, k, statements, run, prev>>

\* Lines 93-101: different keys.
FuzzyMatch ==
    /\ InWindow
    /\ ~Marked(next_row)
    /\ current_row.clean # next_row.clean
    /\ IF IsFuzzyMatch(current_row, next_row)
       THEN /\ ids_to_delete' = ids_to_delete \cup {FuzzyLoser(current_row, next_row)}
            /\ last' = Judged("fuzzy", {FuzzyLoser(current_row, next_row)})
       ELSE /\ ids_to_delete' = ids_to_delete
            /\ last' = Judged("distinct", {})
    /\ njudged' = njudged + 1
    /\ j' = j + 1
    /\ UNCHANGED <<store, pending, WINDOW_SIZE, SIMILARITY_THRESHOLD, pc, rows,
                   data, i, user_input, id_list, k, statements, raised, run, prev>>

\* Line 62: the scan has gone through data.
ScanDone ==
    /\ pc = "scan"
    /\ i >= Len(data)
    /\ pc' = "count"
    /\ UNCHANGED <<store, pending, WINDOW_SIZE, SIMILARITY_THRESHOLD, rows, data,
                   ids_to_delete, i, j, user_input, id_list, k, statements,
                   raised, last, njudged, run, prev>>

\* Lines 104-105, 125-126: nothing to delete, nothing is asked.
NoDuplicates ==
    /\ pc = "count"
    /\ Cardinality(ids_to_delete) = 0
    /\ pc' = "close"
    /\ UNCHANGED <<store, pending, WINDOW_SIZE, SIMILARITY_THRESHOLD, rows, data,
                   ids_to_delete, i, j, user_input, id_list, k, statements,
                   raised, last, njudged, run, prev>>

\* user_input == 'YES'
Affirmative_AnyCase(reply) == reply \in {"YES", "yes"}

Affirmative(reply) == reply = "YES"

\* Lines 104-113, 123-124: the prompt and its reply.
Confirm ==
    /\ pc = "count"
    /\ Cardinality(ids_to_delete) > 0
    /\ \E reply \in Replies :
          /\ user_input' = reply
          /\ IF Affirmative(reply)
             THEN /\ id_list' = ListOf(ids_to_delete)
                  /\ k' = 0
                  /\ pc' = "delete"
             ELSE /\ pc' = "close"
                  /\ UNCHANGED <<id_list, k>>
    /\ UNCHANGED <<store, pending, WINDOW_SIZE, SIMILARITY_THRESHOLD, rows, data,
                   ids_to_delete, i, j, statements, raised, last, njudged, run,
                   prev>>

\* The batch loop with a connection that commits every statement.
ExecuteBatch_Autocommit ==
    /\ pc = "delete"
    /\ k < Len(id_list)
    /\ pending' = DeleteIn(pending, Batch(id_list, k))
    /\ store' = pending'
    /\ statements' = Append(statements, Batch(id_list, k))
    /\ k' = k + batch_size
    /\ UNCHANGED <<WINDOW_SIZE, SIMILARITY_THRESHOLD, pc, rows, data,
                   ids_to_delete, i, j, user_input, id_list, raised, last,
                   njudged, run, prev>>

\* Lines 114-117: one DELETE statement, inside the transaction the first
\* DELETE opened; the committed table does not change.
ExecuteBatch ==
    /\ pc = "delete"
    /\ k < Len(id_list)
    /\ pending' = DeleteIn(pending, Batch(id_list, k))
    /\ statements' = Append(statements, Batch(id_list, k))
    /\ k' = k + batch_size
    /\ UNCHANGED <<store, WINDOW_SIZE, SIMILARITY_THRESHOLD, pc, rows, data,
                   ids_to_delete, i, j, user_input, id_list, raised, last,
                   njudged, run, prev>>

\* Line 117 raising: the exception leaves clean_database, commit() is never
\* reached and the open transaction is rolled back with the connection.
ExecuteFails ==
    /\ pc = "delete"
    /\ k < Len(id_list)
    /\ raised' = "OperationalError"
    /\ pending' = store
    /\ pc' = "raised"
    /\ UNCHANGED <<store, WINDOW_SIZE, SIMILARITY_THRESHOLD, rows, data,
                   ids_to_delete, i, j, user_input, id_list, k, statements,
                   last, njudged, run, prev>>

\* Line 119: conn.commit() after the last batch.
Commit ==
    /\ pc = "delete"
    /\ k >= Len(id_list)
    /\ store' = pending
    /\ pc' = "close"
    /\ UNCHANGED <<pending, WINDOW_SIZE, SIMILARITY_THRESHOLD, rows, data,
                   ids_to_delete, i, j, user_input, id_list, k, statements,
                   raised, last, njudged, run, prev>>

\* Line 128.
Close ==
    /\ pc = "close"
    /\ pc' = "done"
    /\ UNCHANGED <<store, pending, WINDOW_SIZE, SIMILARITY_THRESHOLD, rows, data,
                   ids_to_delete, i, j, user_input, id_list, k, statements,
                   raised, last, njudged, run, prev>>

\* Lines 130-131: the script is run again on the table as it now is; every
\* local of clean_database starts afresh.
Rerun ==
    /\ pc \in {"done", "raised"}
    /\ run < MaxRuns
    /\ run' = run + 1
    /\ prev' = [rows |-> rows, del |-> ids_to_delete,
                scanned |-> (pc = "done" \/ raised = "OperationalError")]
    /\ pending' = store
    /\ pc' = "start"
    /\ rows' = <<>>
    /\ data' = <<>>
    /\ ids_to_delete' = {}
    /\ i' = 0
    /\ j' = 0
    /\ user_input' = NotAsked
    /\ id_list' = <<>>
    /\ k' = 0
    /\ statements' = <<>>
    /\ raised' = ""
    /\ last' = NoJudgement
    /\ njudged' = 0
    /\ UNCHANGED <<store, WINDOW_SIZE, SIMILARITY_THRESHOLD>>

Next ==
    \/ Fetch
    \/ Preprocess
    \/ Sort
    \/ AnchorSkip
    \/ AnchorStart
    \/ WindowEnd
    \/ NeighborSkip
    \/ ExactMatch
    \/ FuzzyMatch
    \/ ScanDone
    \/ NoDuplicates
    \/ Confirm
    \/ ExecuteBatch
    \/ ExecuteFails
    \/ Commit
    \/ Close
    \/ Rerun

Spec == Init /\ [][Next]_vars

-----------------------------------------------------------------------------
(* The deletion phase on large tables *)

(***************************************************************************)
(* A deletion needs more than one batch only when more than batch_size ids *)
(* are marked.  The specification SpecBatch starts clean_database at line  *)
(* 104, in the state the scan leaves behind on a table of n copies of one  *)
(* sentence under the source's configuration: every anchor marks the       *)
(* WINDOW_SIZE rows after it, so the rows at positions 0, 11, 22, ... are  *)
(* kept and all others are marked.  AfterUniformScan states that the scan  *)
(* of Spec ends in exactly this state.                                     *)
(***************************************************************************)

Group == DefaultWindow + 1

\* The ids the scan marks on UniformTable(n).
UniformDeletion(n) == { p \in 1..n : (p - 1) % Group # 0 }

\* The position of the last anchor of the scan of UniformTable(n), n >= 1.
LastAnchor(n) == Group * ((n - 1) \div Group)

\* The last judgement of the scan of UniformTable(n): the last anchor against
\* the last row, or, when the last anchor is the last row, the anchor before
\* it against the row before the last.
UniformLast(n) ==
    IF UniformDeletion(n) = {} THEN NoJudgement
    ELSE LET a == IF n - LastAnchor(n) >= 2 THEN LastAnchor(n) ELSE LastAnchor(n) - Group
             b == IF n - LastAnchor(n) >= 2 THEN n - 1 ELSE LastAnchor(n) - 1
         IN  [kind |-> "exact", anchor |-> a, neighbor |-> b,
              before |-> UniformDeletion(n) \ {b + 1}, added |-> {b + 1}]

\* The smallest uniform table on which d > 0 ids are marked.
RowsForDeletions(d) == d + (d + DefaultWindow - 1) \div DefaultWindow

\* Table sizes around each multiple of batch_size, up to MaxBatches batches
\* and one id more.
BatchTableSizes ==
    {0, 1} \cup
    { RowsForDeletions(d) :
        d \in { e \in UNION { { b * batch_size - 1, b * batch_size, b * batch_size + 1,
                                b * batch_size + 2 } : b \in 0..MaxBatches } : e > 0 } }

AfterScan(n) ==
    /\ store = UniformTable(n)
    /\ pending = store
    /\ WINDOW_SIZE = DefaultWindow
    /\ SIMILARITY_THRESHOLD = DefaultThreshold
    /\ pc = "count"
    /\ rows = store
    /\ data = Candidates(store)
    /\ ids_to_delete = UniformDeletion(n)
    /\ i = n
    /\ j = IF n = 0 THEN 0 ELSE Min(Group, n - LastAnchor(n))
    /\ user_input = NotAsked
    /\ id_list = <<>>
    /\ k = 0
    /\ statements = <<>>
    /\ raised = ""
    /\ last = UniformLast(n)
    /\ njudged = Cardinality(UniformDeletion(n))
    /\ run = 1
    /\ prev = NoPrev

InitBatch == \E n \in BatchTableSizes : AfterScan(n)

NextBatch ==
    \/ NoDuplicates
    \/ Confirm
    \/ ExecuteBatch
    \/ ExecuteFails
    \/ Commit
    \/ Close

SpecBatch == InitBatch /\ [][NextBatch]_vars

\* In Spec, the first scan of a uniform table ends in the state SpecBatch
\* starts from.
AfterUniformScan ==
    \A n \in 0..(Group + 2) :
        (pc = "count" /\ run = 1 /\ store = UniformTable(n)
            /\ WINDOW_SIZE = DefaultWindow /\ SIMILARITY_THRESHOLD = DefaultThreshold)
        => AfterScan(n)

-----------------------------------------------------------------------------
(* The pass over a table of one sentence *)

\* An upper case letter, a lower case letter, a digit, a space and a
\* punctuation mark.
TextAlphabet == {"A", "b", "7", " ", "!"}

\* NULL and every text of at most MaxLen characters of the alphabet.
Texts == {None} \cup UNION { [1..m -> TextAlphabet] : m \in 0..MaxLen }

\* SpecText runs clean_database under the source's configuration on a table
\* of one row, whose text is any of Texts.
InitText ==
    /\ \E t \in Texts : store = << [id |-> 1, text |-> t] >>
    /\ WINDOW_SIZE = DefaultWindow
    /\ SIMILARITY_THRESHOLD = DefaultThreshold
    /\ pending = store
    /\ pc = "start"
    /\ rows = <<>>
    /\ data = <<>>
    /\ ids_to_delete = {}
    /\ i = 0
    /\ j = 0
    /\ user_input = NotAsked
    /\ id_list = <<>>
    /\ k = 0
    /\ statements = <<>>
    /\ raised = ""
    /\ last = NoJudgement
    /\ njudged = 0
    /\ run = 1
    /\ prev = NoPrev

NextText ==
    \/ Fetch
    \/ Preprocess
    \/ Sort
    \/ AnchorStart
    \/ WindowEnd
    \/ ScanDone
    \/ NoDuplicates
    \/ Close

SpecText == InitText /\ [][NextText]_vars

-----------------------------------------------------------------------------
(* Properties *)

\* The configuration is in the documented ranges.
ValidConfig ==
    /\ WINDOW_SIZE >= 1
    /\ SIMILARITY_THRESHOLD >= 0
    /\ SIMILARITY_THRESHOLD <= 100

Anchor(l) == data[l.anchor + 1]

Neighbor(l) == data[l.neighbor + 1]

\* A pair was handed to the judgement (and the judgement may have raised).
PairJudged == last.kind \in {"exact", "fuzzy", "distinct", "error"}

\* C1: during the scan a record whose id is in the deletion set is never one
\* of the two records of a judged pair: neither the anchor nor the neighbour
\* of a judged pair was in the set when the pair was judged, and while an
\* anchor's window is being scanned the anchor's id is not in the set.
C1_SkipRule ==
    /\ PairJudged =>
          /\ Anchor(last).id \notin last.before
          /\ Neighbor(last).id \notin last.before
    /\ pc = "window" => current_row.id \notin ids_to_delete

\* The scan is over; a live anchor a had a row p in its window that an earlier
\* anchor had marked, passed it without a judgement (the last judgement of
\* the scan is an earlier anchor's), and p was later passed as an anchor.
C1_Witness ==
    /\ ValidConfig
    /\ pc = "count"
    /\ last.kind # "none"
    /\ \E a, p \in 0..(Len(data) - 1) :
          /\ last.anchor < a
          /\ a < p
          /\ p - a <= WINDOW_SIZE
          /\ data[a + 1].id \notin ids_to_delete
          /\ data[p + 1].id \in ids_to_delete

\* This step judges a pair with equal keys (and does not raise).
ExactJudgement ==
    /\ pc = "window"
    /\ njudged' = njudged + 1
    /\ current_row.clean = next_row.clean

\* C2: a judged pair with equal keys inserts exactly one id: the neighbour's
\* when len(anchor.text) >= len(neighbor.text), and then the anchor goes on
\* to its next neighbour; the anchor's otherwise, and then the anchor's scan
\* ends and the next position becomes the anchor.
C2_ExactRule ==
    [][ ExactJudgement =>
          IF Len(current_row.text) >= Len(next_row.text)
          THEN /\ next_row.id \notin ids_to_delete
               /\ ids_to_delete' = ids_to_delete \cup {next_row.id}
               /\ current_row.id \notin ids_to_delete'
               /\ pc' = "window" /\ i' = i /\ j' = j + 1
          ELSE /\ current_row.id \notin ids_to_delete
               /\ ids_to_delete' = ids_to_delete \cup {current_row.id}
               /\ next_row.id \notin ids_to_delete'
               /\ pc' = "scan" /\ i' = i + 1 ]_vars

\* An exact judgement has marked its own anchor, after an earlier exact
\* judgement of the pass marked a neighbour.
C2_Witness ==
    /\ last.kind = "exact"
    /\ last.added = {Anchor(last).id}
    /\ pc = "scan"
    /\ i = last.anchor + 1
    /\ last.before # {}

ScanFinished == pc = "count"

\* Positions p < q of data hold two records with the same key and texts
\* whose length is defined.
SameKeyPair(p, q) ==
    /\ p < q
    /\ data[p].clean = data[q].clean
    /\ data[p].text # None
    /\ data[q].text # None

\* Exactly one of the two ids is in the deletion set, and when the lengths
\* differ it is the id of the shorter text.
ExactlyTheShorter(p, q) ==
    /\ Cardinality({data[p].id, data[q].id} \cap ids_to_delete) = 1
    /\ Len(data[p].text) > Len(data[q].text) => data[q].id \in ids_to_delete
    /\ Len(data[p].text) < Len(data[q].text) => data[p].id \in ids_to_delete

\* C3 as claimed: after the pass, of any two records of the collection with
\* identical keys exactly one id is in the deletion set, the shorter text's.
C3_AnyTwoRecords ==
    (ScanFinished /\ ValidConfig) =>
        \A p, q \in 1..Len(data) : SameKeyPair(p, q) => ExactlyTheShorter(p, q)

\* No third record has the key of p, or a key whose ratio with it reaches
\* the threshold.
NoThirdMatch(p, q) ==
    \A r \in 1..Len(data) :
        r \notin {p, q} =>
            /\ data[r].clean # data[p].clean
            /\ ~RatioAtLeast(ratio(data[r].clean, data[p].clean), SIMILARITY_THRESHOLD)

\* C3 as amended: with a window of at least 1, of two records with identical
\* keys that no third record matches, exactly one id is in the deletion set
\* after the scan: the shorter text's, and for texts of equal length the id of
\* the record that is later in the sorted sequence.
C3_LonePair ==
    (ScanFinished /\ WINDOW_SIZE >= 1) =>
        \A p, q \in 1..Len(data) :
            (SameKeyPair(p, q) /\ NoThirdMatch(p, q)) =>
                /\ ExactlyTheShorter(p, q)
                /\ Len(data[p].text) = Len(data[q].text) =>
                       data[q].id \in ids_to_delete

\* "No pain, no gain!" against "no pain no gain": id 2, the shorter text's, is
\* the one deleted; and a pair of equal length has lost its later record.
C3_Witness ==
    /\ ScanFinished
    /\ store = PainTable
    /\ data[1].clean = data[2].clean
    /\ ids_to_delete = {2}

\* This step judges a pair with different keys whose ratio reaches the threshold.
FuzzyJudgement ==
    /\ pc = "window"
    /\ njudged' = njudged + 1
    /\ current_row.clean # next_row.clean
    /\ RatioAtLeast(ratio(current_row.clean, next_row.clean), SIMILARITY_THRESHOLD)

\* C4: a judged pair with different keys and ratio >= threshold inserts the
\* neighbour's id and nothing else, the anchor's id is not in the set after
\* it, and the anchor goes on with its next neighbour.
C4_FuzzyRule ==
    [][ FuzzyJudgement =>
          /\ ids_to_delete' = ids_to_delete \cup {next_row.id}
          /\ next_row.id \notin ids_to_delete
          /\ current_row.id \notin ids_to_delete'
          /\ pc' = "window" /\ i' = i /\ j' = j + 1 ]_vars

\* A fuzzy match marked the neighbour and the same anchor then judged one
\* more neighbour.
C4_Witness ==
    /\ ValidConfig
    /\ PairJudged
    /\ last.neighbor >= last.anchor + 2
    /\ \E p \in (last.anchor + 1)..(last.neighbor - 1) :
          /\ data[p + 1].id \in ids_to_delete
          /\ data[p + 1].clean # Anchor(last).clean
          /\ RatioAtLeast(ratio(Anchor(last).clean, data[p + 1].clean), SIMILARITY_THRESHOLD)
    /\ Anchor(last).id \notin ids_to_delete

Sorted == pc \in {"scan", "window", "count", "delete", "close", "done", "raised"}

\* C5: the scanned sequence is ascending by key and, among equal keys,
\* ascending by id.
C5_SortedByKeyThenId ==
    Sorted =>
        \A p \in 1..(Len(data) - 1) :
            \/ StrLess(data[p].clean, data[p + 1].clean)
            \/ /\ data[p].clean = data[p + 1].clean
               /\ data[p].id < data[p + 1].id

Without(table, ids) == SelectSeq(table, LAMBDA r : r.id \notin ids)

Ended == pc \in {"close", "done"}

\* C7: the table changes only in a step taken with a non-empty deletion set
\* and the reply 'YES'; a pass that ends with an empty deletion set has asked
\* nothing and left the table as read; a pass that ends after any other reply
\* has left the table as read.
C7_ConfirmationGate ==
    [][ /\ store' # store => (ids_to_delete # {} /\ user_input = "YES")
        /\ (Ended' /\ ids_to_delete' = {}) => (user_input' = NotAsked /\ store' = rows')
        /\ (Ended' /\ user_input' # "YES") => store' = rows' ]_vars

\* A pass has ended that was asked, was given a reply other than 'YES', and
\* left a table with duplicates in it untouched.
C7_Witness ==
    /\ pc = "done"
    /\ ids_to_delete # {}
    /\ user_input = "yes"
    /\ store = rows

\* C8: the committed table is at every moment of a pass the table as read or
\* the table without every record of the deletion set, whether the batches
\* were applied, a batch failed, or the pass has ended.
C8_AllOrNothing ==
    pc # "start" =>
        \/ store = rows
        \/ store = Without(rows, ids_to_delete)

\* A batch has failed after an earlier batch had been applied.
C8_Witness ==
    /\ pc = "raised"
    /\ raised = "OperationalError"
    /\ k > 0
    /\ k < Len(id_list)
    /\ Len(statements) >= 1
    /\ ids_to_delete # {}
    /\ store = rows

\* C9: under a configuration in range, a collection with null texts never
\* makes the scan abort: no judgement raises.
C9_ScanNeverAborts == ValidConfig => raised # "TypeError"

\* C10: a pass whose threshold is outside [0, 1] or whose window size is <= 0
\* reads no record and runs no scan.
C10_ConfigChecked == ~ValidConfig => pc = "start"

\* This step hands the pair at positions (i, i + j) to the judgement: it is
\* judged, or the judgement raises.
JudgementStep ==
    /\ pc = "window"
    /\ njudged' = njudged + 1 \/ raised' = "TypeError"

\* C11: every pair handed to the judgement is the anchor at position i and a
\* neighbour at a position in i+1 .. i+W inside the sequence; after it the
\* same anchor goes on with a later neighbour or the anchor's scan is over,
\* so an anchor is judged against at most W neighbours; and the number of
\* judgements of a pass over n records is at most n * W.
C11_WindowedJudgements ==
    [][ JudgementStep =>
          /\ j >= 1
          /\ j <= WINDOW_SIZE
          /\ i + j < Len(data)
          /\ last'.anchor = i
          /\ last'.neighbor = i + j
          /\ \/ i' = i /\ j' = j + 1 /\ pc' = "window"
             \/ i' = i + 1 /\ pc' = "scan"
             \/ pc' = "raised"
          /\ njudged' <= Len(data) * WINDOW_SIZE ]_vars

\* The first anchor has been judged against W neighbours, the whole of its
\* window, and rows lie beyond the window that it is not judged against.
C11_Witness ==
    /\ ValidConfig
    /\ pc = "window"
    /\ i = 0
    /\ j = WINDOW_SIZE + 1
    /\ i + j < Len(data)
    /\ njudged = WINDOW_SIZE
    /\ last.anchor = 0
    /\ last.neighbor = WINDOW_SIZE

\* The records at positions p < q of data match: equal keys, or a ratio that
\* reaches the threshold.
Matching(p, q) ==
    \/ data[p].clean = data[q].clean
    \/ RatioAtLeast(ratio(data[p].clean, data[q].clean), SIMILARITY_THRESHOLD)

\* Positions p < q are more than W apart, the records between them having
\* pairwise distinct keys.
FarApart(p, q) ==
    /\ q - p > WINDOW_SIZE
    /\ \A r, t \in (p + 1)..(q - 1) : r # t => data[r].clean # data[t].clean

\* C12: two matching records more than W positions apart in the sorted
\* sequence, with at least W records of pairwise distinct keys between them,
\* are never handed to the judgement as a pair, so no step puts the id of one
\* in the deletion set on account of the other.
C12_FarPairUndetected ==
    [][ \A p, q \in 1..Len(data) :
          (pc = "window" /\ FarApart(p, q) /\ Matching(p, q)) =>
              ~ /\ i + 1 = p
                /\ i + j + 1 = q
                /\ \/ ids_to_delete' # ids_to_delete
                   \/ last' # last ]_vars

\* The scan is over under a window of at least 1, and two matching records
\* more than W apart, a filler between them, both survive.
C12_Witness ==
    /\ ValidConfig
    /\ ScanFinished
    /\ \E p, q \in 1..Len(data) :
          /\ p < q
          /\ FarApart(p, q)
          /\ Matching(p, q)
          /\ data[p].id \notin ids_to_delete
          /\ data[q].id \notin ids_to_delete

\* The pass has ended after the reply 'YES': the batches ran and were committed.
ConfirmedDeletion == Ended /\ user_input = "YES"

RECURSIVE TotalLen(_)
TotalLen(ss) == IF ss = <<>> THEN 0 ELSE Len(Head(ss)) + TotalLen(Tail(ss))

\* C13: after a confirmed deletion every id of the deletion set is in exactly
\* one DELETE statement (and once in it), the statements carry nothing but
\* ids of the set and at most 900 ids each, and the table is the table as
\* read without exactly the records whose id is in the deletion set.
C13_BatchedDeletion ==
    ConfirmedDeletion =>
        /\ \A x \in ids_to_delete :
              Cardinality({ s \in DOMAIN statements : x \in Range(statements[s]) }) = 1
        /\ TotalLen(statements) = Cardinality(ids_to_delete)
        /\ \A s \in DOMAIN statements :
              /\ Len(statements[s]) <= 900
              /\ Range(statements[s]) \subseteq ids_to_delete
        /\ store = Without(rows, ids_to_delete)

\* A deletion of more than one batch has been committed: the last statement
\* carries the one id that did not fit, and the table has lost records.
C13_Witness ==
    /\ ConfirmedDeletion
    /\ Len(statements) >= 2
    /\ Len(statements[1]) = 900
    /\ Len(statements[Len(statements)]) = 1
    /\ Len(store) = Len(rows) - Cardinality(ids_to_delete)
    /\ Len(store) > 0

DefaultConfigured ==
    /\ WINDOW_SIZE = DefaultWindow
    /\ SIMILARITY_THRESHOLD = DefaultThreshold

\* C14: for the table [(1, "I love dogs"), (2, "I love dog"), (3, "completely
\* unrelated text")] with threshold 0.90 and window 10 the scan ends with a
\* deletion set of exactly one id, which is 1 or 2; 3 is not in it.
C14_DogsExample ==
    (ScanFinished /\ rows = DogTable /\ DefaultConfigured) =>
        /\ Cardinality(ids_to_delete) = 1
        /\ 1 \in ids_to_delete \/ 2 \in ids_to_delete
        /\ 3 \notin ids_to_delete

\* The scan of the example has ended: "I love dog" was the anchor of the
\* fuzzy match, and id 1, "I love dogs", is the one marked.
C14_Witness ==
    /\ ScanFinished
    /\ rows = DogTable
    /\ DefaultConfigured
    /\ last.kind = "fuzzy"
    /\ Anchor(last).id = 2
    /\ ids_to_delete = {1}

\* This step judges a pair with different keys.
DistinctKeysJudgement ==
    /\ pc = "window"
    /\ njudged' = njudged + 1
    /\ current_row.clean # next_row.clean

\* C15: a judged pair with different keys whose ratio equals the threshold
\* marks the neighbour, and one whose ratio is below the threshold leaves the
\* deletion set as it was.
C15_InclusiveThreshold ==
    [][ DistinctKeysJudgement =>
          LET r == ratio(current_row.clean, next_row.clean)
          IN  /\ r.num * 100 = SIMILARITY_THRESHOLD * r.den =>
                     /\ next_row.id \notin ids_to_delete
                     /\ ids_to_delete' = ids_to_delete \cup {next_row.id}
              /\ r.num * 100 < SIMILARITY_THRESHOLD * r.den =>
                     ids_to_delete' = ids_to_delete ]_vars

\* Under threshold 0.90 the first anchor has marked a neighbour whose ratio
\* is 18 / 20, exactly 0.90, and has then judged one at 16 / 20 and left it.
C15_Witness ==
    /\ rows = BooksTable
    /\ DefaultConfigured
    /\ last.kind = "distinct"
    /\ last.anchor = 0
    /\ last.neighbor = 2
    /\ ratio(data[1].clean, data[2].clean) = [num |-> 18, den |-> 20]
    /\ ratio(data[1].clean, data[3].clean) = [num |-> 16, den |-> 20]
    /\ ids_to_delete = {data[2].id}

\* C17 as claimed: the match decision of a judged pair with different keys is
\* the decision 1 - editDistance(a, b) / max(len(a), len(b), 1) >= threshold.
C17_NormalizedEditDistance ==
    [][ (DistinctKeysJudgement /\ ValidConfig) =>
          (ids_to_delete' # ids_to_delete
             <=> RatioAtLeast(ratio_Normalized(current_row.clean, next_row.clean),
                              SIMILARITY_THRESHOLD)) ]_vars

\* C17 as amended: the match decision of a judged pair with different keys a
\* and b is the decision (len(a) + len(b) - d) / (len(a) + len(b)) >=
\* threshold, where d is the edit distance by insertions and deletions alone,
\* len(a) + len(b) less twice the length of a longest common subsequence.
C17_IndelRatio ==
    [][ DistinctKeysJudgement =>
          LET a == current_row.clean
              b == next_row.clean
          IN  ids_to_delete' # ids_to_delete
                <=> 2 * LcsLength(a, b) * 100 >= SIMILARITY_THRESHOLD * (Len(a) + Len(b)) ]_vars

\* "ilovedog" against "ilovedogs" at threshold 0.90 was judged a match, at
\* 16 / 17, where 1 - 1 / 9 is below the threshold.
C17_Witness ==
    /\ DefaultConfigured
    /\ last.kind = "fuzzy"
    /\ Anchor(last).clean = normalize_text(ILoveDog)
    /\ Neighbor(last).clean = normalize_text(ILoveDogs)
    /\ Neighbor(last).id \in ids_to_delete
    /\ ratio_Normalized(Anchor(last).clean, Neighbor(last).clean) = [num |-> 8, den |-> 9]
    /\ ~RatioAtLeast(ratio_Normalized(Anchor(last).clean, Neighbor(last).clean),
                     SIMILARITY_THRESHOLD)

\* C18: on a fuzzy match the anchor, which is kept, has a lower id than the
\* neighbour, which is marked.
C18_FuzzyKeepsLowerId ==
    (ValidConfig /\ last.kind = "fuzzy") => Anchor(last).id < Neighbor(last).id

\* The keys of data have been computed.
Preprocessed == pc \notin {"start", "preprocess"}

\* C16: the key of every text x is normalize_text(x), a fixed point of
\* normalize_text made of characters of a-z and 0-9 only, and it is the empty
\* string when x is NULL or empty.
C16_NormalizeIdempotent ==
    Preprocessed =>
        \A p \in 1..Len(data) :
            LET x == data[p].text
                y == data[p].clean
            IN  /\ y = normalize_text(x)
                /\ normalize_text(y) = y
                /\ Range(y) \subseteq Range(KeyChars)
                /\ x \in {None, <<>>} => y = <<>>

\* A text with an upper case letter, a space and a digit has been given its
\* key, which is shorter than the text and differs from it in case.
C16_Witness ==
    /\ Preprocessed
    /\ Len(data) = 1
    /\ data[1].text = <<"A", " ", "7">>
    /\ data[1].clean = <<"a", "7">>

Survives(p) == data[p].id \notin ids_to_delete

\* Every text of data is a string.
StringTexts == \A p \in 1..Len(data) : data[p].text # None

\* C19: when the scan has finished over records with string texts, every
\* record in the deletion set has a surviving record whose key is equal to
\* its key or has a ratio with it that reaches the threshold, and a table that
\* is not empty keeps at least one record.
C19_SurvivingRepresentative ==
    (ScanFinished /\ StringTexts) =>
        /\ \A d \in 1..Len(data) :
              ~Survives(d) =>
                  \E s \in 1..Len(data) :
                      /\ Survives(s)
                      /\ \/ data[s].clean = data[d].clean
                         \/ RatioAtLeast(ratio(data[s].clean, data[d].clean),
                                         SIMILARITY_THRESHOLD)
        /\ Len(data) > 0 => \E s \in 1..Len(data) : Survives(s)

\* The scan has finished with two of three records marked: the first anchor
\* marked a neighbour and then itself, and the third record stands for both.
C19_Witness ==
    /\ ValidConfig
    /\ ScanFinished
    /\ StringTexts
    /\ Len(data) = 3
    /\ Cardinality(ids_to_delete) = 2
    /\ last.kind = "exact"
    /\ last.anchor = 0
    /\ last.added = {Anchor(last).id}
    /\ Survives(3)

\* C20: when the scan has finished, two surviving records at most W
\* positions apart in the sorted sequence have different keys and a ratio
\* below the threshold.
C20_NoSurvivingMatchInWindow ==
    ScanFinished =>
        \A p, q \in 1..Len(data) :
            (p < q /\ q - p <= WINDOW_SIZE /\ Survives(p) /\ Survives(q)) =>
                /\ data[p].clean # data[q].clean
                /\ ~RatioAtLeast(ratio(data[p].clean, data[q].clean),
                                 SIMILARITY_THRESHOLD)

\* The scan has finished: the record between two survivors of one window was
\* marked, and the two survivors were judged against each other and kept.
C20_Witness ==
    /\ ValidConfig
    /\ ScanFinished
    /\ \E p, q \in 1..Len(data) :
          /\ p + 1 < q
          /\ q - p <= WINDOW_SIZE
          /\ Survives(p)
          /\ Survives(q)
          /\ ~Survives(p + 1)
          /\ last.anchor = p - 1
          /\ last.neighbor = q - 1
          /\ last.kind = "distinct"

\* The scan has gone through data and the pass has not raised.
ScanOver == pc \in {"count", "delete", "close", "done"}

\* The positions of the records that share the key of the record at p.
KeyGroup(p) == { q \in 1..Len(data) : data[q].clean = data[p].clean }

\* No record outside the group of p has a key whose ratio with the group's
\* key reaches the threshold.
GroupIsolated(p) ==
    \A r \in 1..Len(data) \ KeyGroup(p) :
        ~RatioAtLeast(ratio(data[r].clean, data[p].clean), SIMILARITY_THRESHOLD)

\* The position in G of the longest text, the earliest of them in sorted order.
LongestOf(G) ==
    CHOOSE s \in G :
        \A m \in G :
            \/ Len(data[s].text) > Len(data[m].text)
            \/ Len(data[s].text) = Len(data[m].text) /\ s <= m

\* C21: of the records that share one key, at most W + 1 of them, with texts
\* that have a length and no record outside them whose ratio with the key
\* reaches the threshold, exactly one is outside the deletion set once the
\* scan is over: the one with the longest text, the earliest in sorted order
\* of those; and after a confirmed deletion it is the one left in the table.
C21_GroupKeepsLongest ==
    ScanOver =>
        \A p \in 1..Len(data) :
            ( /\ Cardinality(KeyGroup(p)) <= WINDOW_SIZE + 1
              /\ GroupIsolated(p)
              /\ \A q \in KeyGroup(p) : data[q].text # None ) =>
                /\ { q \in KeyGroup(p) : Survives(q) } = { LongestOf(KeyGroup(p)) }
                /\ ConfirmedDeletion =>
                       { r.id : r \in { t \in Range(store) :
                                           t.id \in { data[q].id : q \in KeyGroup(p) } } }
                         = { data[LongestOf(KeyGroup(p))].id }

\* A confirmed deletion has ended on three records of one key under window
\* 2, a group of W + 1: the first, the shortest, and the third, as long as the
\* second, were deleted and the second is what the table holds.
C21_Witness ==
    /\ ConfirmedDeletion
    /\ WINDOW_SIZE = 2
    /\ ValidConfig
    /\ Len(data) = 3
    /\ KeyGroup(1) = {1, 2, 3}
    /\ Len(data[1].text) < Len(data[2].text)
    /\ Len(data[2].text) = Len(data[3].text)
    /\ ids_to_delete = {data[1].id, data[3].id}
    /\ store = << [id |-> data[2].id, text |-> data[2].text] >>

====
